---- MODULE Spec2Model ----
(***************************************************************************)
(* Model of ics632/tutorial_sim_grid/topic2/bcast_skeleton.c: one MPI      *)
(* process per rank runs main(); the ranks interleave and meet only in     *)
(* the messages and barriers of the MPI runtime.                           *)
(***************************************************************************)
EXTENDS Integers, Sequences, FiniteSets, TLC

\* ------------------------------------------------------------------ bounds
\* Largest group size explored (mpirun -np).
MaxProcs == 3
\* Length of the broadcast buffer (the program's NUM_BYTES, scaled down).
NUM_BYTES == 3
\* Byte values are 0..MaxByte.
MaxByte == 1
\* Largest total_bytes / chunk_size of the stand-alone partition loop.
MaxTotal == 16
MaxPartChunk == 18
\* Largest group size of the tree strategy run alone (a non-root rank with
\* two children needs five ranks).
MaxTreeProcs == 5
\* Largest group size of the program run without faults.
MaxProgramProcs == 4

\* ------------------------------------------------------------- constants
\* The message tag used by every point-to-point call.
tag == 1
\* Marker of a buffer byte malloc() returned and nobody has written yet.
Garbage == 0 - 1
\* An MPI_Request variable that was declared and never assigned, and one
\* that a completed wait has reset (MPI_REQUEST_NULL).
Uninit == [dst |-> 0 - 1, off |-> 0 - 1]
RequestNull == [dst |-> 0 - 2, off |-> 0 - 2]

Impls == {"default_bcast", "naive_bcast", "ring_bcast", "pipelined_ring_bcast",
          "asynchronous_pipelined_ring_bcast", "asynchronous_pipelined_bintree_bcast"}
\* Values of the -c argument explored: negative, zero, divisors and
\* non-divisors of NUM_BYTES, NUM_BYTES itself and one value above it.
ChunkSizes == (0 - 1)..(NUM_BYTES + 1)
Bytes == 0..MaxByte
\* Messages a rank may have queued towards one destination before the
\* runtime stops accepting more (only reached by loops that never advance).
MaxInFlight == NUM_BYTES

VARIABLES
    num_procs,                  \* MPI_Comm_size
    bcast_implementation_name,  \* argv[1]
    configured_chunk,           \* the -c value (NUM_BYTES when absent)
    eager,                      \* TRUE: the runtime buffers standard-mode sends
    pc,                         \* pc[rank]: position of each process in main()
    j,                          \* j[rank]: the loop variable
    chunk_size,                 \* chunk_size[rank]
    buffer,                     \* buffer[rank]: sequence of NUM_BYTES bytes
    checksum,                   \* rank 0's reference checksum
    all_ok,                     \* all_ok[rank]
    request,                    \* request[rank]: the two request slots
    chan,                       \* chan[<<src,dst>>]: messages sent, not yet received
    unwaited,                   \* unwaited[rank]: isends not yet waited-on
    nrecv,                      \* checksum messages rank 0 has received
    mismatches,                 \* received checksums that differed
    diagnostics,                \* mismatch lines printed
    timing,                     \* sequence of ranks that printed the timing line
    corrupted,                  \* ranks whose buffer was altered after the bcast
    aborted,                    \* MPI_Abort was called / the job was killed
    log,                        \* log[rank]: the data transfers of the rank, in order
    part                        \* state of the stand-alone partition loop

vars == <<num_procs, bcast_implementation_name, configured_chunk, eager, pc, j,
          chunk_size, buffer, checksum, all_ok, request, chan, unwaited, nrecv,
          mismatches, diagnostics, timing, corrupted, aborted, log, part>>

config == <<num_procs, bcast_implementation_name, configured_chunk, eager, checksum>>
harness == <<all_ok, nrecv, mismatches, diagnostics, timing>>

Procs == 0..(num_procs - 1)

\* ------------------------------------------------------------ pure helpers
RECURSIVE SumSeq(_)
SumSeq(s) == IF s = <<>> THEN 0 ELSE Head(s) + SumSeq(Tail(s))

\* checksum += buffer[j] over the whole buffer, in an int; with NUM_BYTES
\* bytes of at most MaxByte the sum stays far inside the int range.
Checksum(buf) == SumSeq(buf)

\* srandom(RAND_SEED) makes random() the same sequence in every run; this is
\* the sequence of random() % 256 scaled to the byte values of the model.
\* Rank 0 fills its buffer with it before the first barrier.
RandomByte(i) == i % (MaxByte + 1)
RootFill == [i \in 1..NUM_BYTES |-> RandomByte(i)]

\* All byte sequences of length n.
ByteSeqs(n) == [1..n -> Bytes]

\* The values a buffer can show when read: written bytes as they are, bytes
\* never written any value at all.
Readings(buf) == {b \in ByteSeqs(Len(buf)) :
                    \A i \in 1..Len(buf) : buf[i] # Garbage => b[i] = buf[i]}

\* if (j > NUM_BYTES-chunk_size) chunk_size = NUM_BYTES%chunk_size;
AdjustChunkOffByOne(jj, cs, total) == IF jj >= total - cs THEN total % cs ELSE cs
AdjustChunk(jj, cs, total) == IF jj > total - cs THEN total % cs ELSE cs

\* buffer+off, count bytes
RegionShort(buf, off, count) == SubSeq(buf, off + 1, off + count - 1)
Region(buf, off, count) == SubSeq(buf, off + 1, off + count)

\* The bytes of a received message stored at buffer+off.
WriteAtStart(buf, off, data) ==
    [i \in 1..Len(buf) |-> IF i <= Len(data) THEN data[i] ELSE buf[i]]
WriteAt(buf, off, data) ==
    [i \in 1..Len(buf) |-> IF i > off /\ i <= off + Len(data) THEN data[i - off] ELSE buf[i]]

DataMsg(off, data) == [kind |-> "data", tag |-> tag, off |-> off, data |-> data]
ChecksumMsg(c) == [kind |-> "checksum", tag |-> 1, off |-> 0, data |-> <<c>>]

\* (all_ok == 1) && (checksum != received_checksum)
MismatchOneSided(ok, ref, received) == ok = 1 /\ ref < received
Mismatch(ok, ref, received) == ok = 1 /\ ref # received

\* (0 == rank) && (all_ok)
PrintsTimingAlways(rank, ok) == 0 = rank
PrintsTiming(rank, ok) == 0 = rank /\ ok # 0

\* Where a rank goes when its strategy returns: rank 0 enters the loop that
\* collects num_procs-1 checksums (none when alone), the others compute theirs.
AfterBcastPc(p) == IF p = 0 /\ ~(1 < num_procs) THEN "bar2" ELSE "cksum"
AfterBcastJ(p) == IF p = 0 THEN 1 ELSE j[p]

At(p, l) == ~aborted /\ pc[p] = l

Goto(p, newpc, newj) ==
    /\ pc' = [pc EXCEPT ![p] = newpc]
    /\ j' = [j EXCEPT ![p] = newj]

ExitBcast(p) == Goto(p, AfterBcastPc(p), AfterBcastJ(p))

\* A send handle is complete once the runtime has buffered the message or
\* the destination has received it.
Complete(p, h) ==
    \/ eager
    \/ \A i \in 1..Len(chan[<<p, h.dst>>]) : chan[<<p, h.dst>>][i].off # h.off

\* The record of one data transfer of a rank: the call ("send": a blocking
\* send was entered, "sent": it returned, "isend", "recv", "bcast"), the
\* region of the buffer and the other rank. A rank's log keeps the calls in
\* program order; a call that repeats an earlier one a third time is not
\* added again, which keeps the log of a loop that never ends finite.
Ev(ev, off, len, peer) == [ev |-> ev, off |-> off, len |-> len, peer |-> peer]

Logged(l, e) ==
    IF Cardinality({i \in 1..Len(l) : l[i] = e}) >= 2 THEN l ELSE Append(l, e)

RECURSIVE LogAll(_, _)
LogAll(l, evs) == IF evs = <<>> THEN l ELSE LogAll(Logged(l, Head(evs)), Tail(evs))

Record(p, evs) == log' = [log EXCEPT ![p] = LogAll(@, evs)]

\* A blocking send that was accepted; buffered by the runtime it has also
\* returned.
SendEvs(off, len, dst) ==
    IF eager THEN <<Ev("send", off, len, dst), Ev("sent", off, len, dst)>>
    ELSE <<Ev("send", off, len, dst)>>

\* ------------------------------------------------------------------- Init
PartIdle == [total |-> 0, configured |-> 0, j |-> 0, chunk_size |-> 0,
             plan |-> <<>>, pc |-> "idle"]

\* The state after MPI_Init, the argument parsing, the allocation and rank
\* 0's fill, for a communicator size, a strategy and a chunk size from the
\* given sets.
Start(sizes, impls, chunks) ==
    /\ num_procs \in sizes
    /\ bcast_implementation_name \in impls
    /\ configured_chunk \in chunks
    /\ eager \in BOOLEAN
    /\ pc = [p \in Procs |-> "start"]
    /\ j = [p \in Procs |-> 0]
    /\ chunk_size = [p \in Procs |-> configured_chunk]
    /\ buffer = [p \in Procs |-> IF p = 0 THEN RootFill
                                   ELSE [i \in 1..NUM_BYTES |-> Garbage]]
    /\ checksum = Checksum(RootFill)
    /\ all_ok = [p \in Procs |-> 1]
    /\ request = [p \in Procs |-> <<Uninit, Uninit>>]
    /\ chan = [c \in Procs \X Procs |-> <<>>]
    /\ unwaited = [p \in Procs |-> {}]
    /\ nrecv = 0
    /\ mismatches = 0
    /\ diagnostics = 0
    /\ timing = <<>>
    /\ corrupted = {}
    /\ aborted = FALSE
    /\ log = [p \in Procs |-> <<>>]
    /\ part = PartIdle

Init == Start(1..MaxProcs, Impls, ChunkSizes)

\* ---------------------------------------------------- the MPI runtime calls
\* MPI_Send / MPI_Isend hand message m for dst to the runtime. An invalid
\* destination rank or a negative count is an error, and errors are fatal.
Post(p, dst, count, m) ==
    IF dst \notin Procs \/ count < 0
    THEN /\ aborted' = TRUE
         /\ UNCHANGED chan
    ELSE /\ Len(chan[<<p, dst>>]) < MaxInFlight
         /\ chan' = [chan EXCEPT ![<<p, dst>>] = Append(@, m)]
         /\ UNCHANGED aborted

PostOk(dst, count) == dst \in Procs /\ count >= 0

\* MPI_Recv(buffer+off, count, ..., src): takes the oldest message from src.
\* A negative count, or a message longer than count, is a fatal error.
Receive(p, src, off, count) ==
    IF count < 0
    THEN /\ aborted' = TRUE
         /\ UNCHANGED <<chan, buffer>>
    ELSE /\ chan[<<src, p>>] # <<>>
         /\ LET m == Head(chan[<<src, p>>]) IN
            IF Len(m.data) > count
            THEN /\ aborted' = TRUE
                 /\ UNCHANGED <<chan, buffer>>
            ELSE /\ chan' = [chan EXCEPT ![<<src, p>>] = Tail(@)]
                 /\ buffer' = [buffer EXCEPT ![p] = WriteAt(@, off, m.data)]
                 /\ UNCHANGED aborted

ReceiveOk(p, src, count) == count >= 0 /\ Len(Head(chan[<<src, p>>]).data) <= count

\* A receive that returned: the region it wrote and the rank it matched.
RecvEvs(p, src, off, count) ==
    IF count < 0 THEN <<>>
    ELSE IF Len(Head(chan[<<src, p>>]).data) > count THEN <<>>
    ELSE <<Ev("recv", off, Len(Head(chan[<<src, p>>]).data), src)>>

\* ------------------------------------------------------------ first barrier
EnterBarrier1(p) ==
    /\ At(p, "start")
    /\ pc' = [pc EXCEPT ![p] = "bar1"]
    /\ UNCHANGED <<config, j, chunk_size, buffer, request, chan, unwaited, harness,
                   corrupted, aborted, part, log>>

\* MPI_Barrier returns on a rank once every rank of the communicator has
\* called it.
MayLeaveBarrier1Alone(p) == TRUE
MayLeaveBarrier1(p) == \A q \in Procs : pc[q] # "start"

\* Leaving the barrier a rank stands at the first statement of its strategy;
\* the loops start at j = 0, naive_bcast's at j = 1.
LeaveBarrier1(p) ==
    /\ At(p, "bar1")
    /\ MayLeaveBarrier1(p)
    /\ Goto(p, "loop", IF bcast_implementation_name = "naive_bcast" /\ p = 0 THEN 1 ELSE 0)
    /\ UNCHANGED <<config, chunk_size, buffer, request, chan, unwaited, harness,
                   corrupted, aborted, part, log>>

\* ------------------------------------------------------------ default_bcast
\* MPI_Bcast: the root's call hands the buffer to the runtime, a non-root's
\* call returns with the root's bytes once the root has called.
DefaultBcast(p) ==
    /\ bcast_implementation_name = "default_bcast"
    /\ At(p, "loop")
    /\ p # 0 => pc[0] \notin {"start", "bar1", "loop"}
    /\ buffer' = [buffer EXCEPT ![p] = buffer[0]]
    /\ ExitBcast(p)
    /\ Record(p, <<Ev("bcast", 0, NUM_BYTES, 0)>>)
    /\ UNCHANGED <<config, chunk_size, request, chan, unwaited, harness,
                   corrupted, aborted, part>>

\* The end of one iteration of a chunk loop: j += chunk_size, then the test
\* j < NUM_BYTES; afterpc is where the rank goes when the loop ends.
NextChunk(p, afterpc, afterj) ==
    LET nj == j[p] + chunk_size'[p] IN
    /\ nj >= 0 - NUM_BYTES
    /\ IF nj < NUM_BYTES THEN Goto(p, "loop", nj) ELSE Goto(p, afterpc, afterj)

\* What follows a blocking MPI_Send of the strategies once it has returned.
AfterSend(p) ==
    CASE bcast_implementation_name = "naive_bcast" -> Goto(p, "loop", j[p] + 1)
      [] bcast_implementation_name = "ring_bcast" -> ExitBcast(p)
      [] OTHER -> NextChunk(p, AfterBcastPc(p), AfterBcastJ(p))

\* A blocking MPI_Send that was accepted: it returns at once when the runtime
\* buffers the message, otherwise the rank stays in the call until the
\* destination has received it.
InSendNoBlock(p) == AfterSend(p)
InSend(p) == IF eager THEN AfterSend(p) ELSE Goto(p, "sendwait", j[p])

\* if (rank != num_procs-1): the ring strategies' test before a non-root
\* rank passes what it received on to rank+1.
ForwardsAlways(p) == TRUE
Forwards(p) == p # num_procs - 1

\* -------------------------------------------------------------- naive_bcast
NaiveSend(p) ==
    /\ bcast_implementation_name = "naive_bcast"
    /\ At(p, "loop") /\ p = 0
    /\ IF j[p] < num_procs
       THEN /\ Post(p, j[p], NUM_BYTES, DataMsg(0, Region(buffer[p], 0, NUM_BYTES)))
            /\ InSend(p)
            /\ Record(p, SendEvs(0, NUM_BYTES, j[p]))
       ELSE /\ ExitBcast(p)
            /\ UNCHANGED <<chan, aborted, log>>
    /\ UNCHANGED <<config, chunk_size, buffer, request, unwaited, harness, corrupted, part>>

NaiveRecv(p) ==
    /\ bcast_implementation_name = "naive_bcast"
    /\ At(p, "loop") /\ p # 0
    /\ Receive(p, 0, 0, NUM_BYTES)
    /\ ExitBcast(p)
    /\ Record(p, RecvEvs(p, 0, 0, NUM_BYTES))
    /\ UNCHANGED <<config, chunk_size, request, unwaited, harness, corrupted, part>>

\* --------------------------------------------------------------- ring_bcast
RingSend(p) ==
    /\ bcast_implementation_name = "ring_bcast"
    /\ \/ At(p, "loop") /\ p = 0
       \/ At(p, "fwd")
    /\ Post(p, p + 1, NUM_BYTES, DataMsg(0, Region(buffer[p], 0, NUM_BYTES)))
    /\ IF PostOk(p + 1, NUM_BYTES)
       THEN InSend(p) /\ Record(p, SendEvs(0, NUM_BYTES, p + 1))
       ELSE UNCHANGED <<pc, j, log>>
    /\ UNCHANGED <<config, chunk_size, buffer, request, unwaited, harness, corrupted, part>>

RingRecv(p) ==
    /\ bcast_implementation_name = "ring_bcast"
    /\ At(p, "loop") /\ p # 0
    /\ Receive(p, p - 1, 0, NUM_BYTES)
    /\ IF Forwards(p)
       THEN Goto(p, "fwd", j[p])
       ELSE ExitBcast(p)
    /\ Record(p, RecvEvs(p, p - 1, 0, NUM_BYTES))
    /\ UNCHANGED <<config, chunk_size, request, unwaited, harness, corrupted, part>>

\* ----------------------------------------------------- pipelined_ring_bcast
PipelinedSend(p) ==
    /\ bcast_implementation_name = "pipelined_ring_bcast"
    /\ \/ /\ At(p, "loop") /\ p = 0
          /\ chunk_size' = [chunk_size EXCEPT ![p] = AdjustChunk(j[p], @, NUM_BYTES)]
       \/ /\ At(p, "fwd")
          /\ UNCHANGED chunk_size
    /\ Post(p, p + 1, chunk_size'[p], DataMsg(j[p], Region(buffer[p], j[p], chunk_size'[p])))
    /\ IF PostOk(p + 1, chunk_size'[p])
       THEN InSend(p) /\ Record(p, SendEvs(j[p], chunk_size'[p], p + 1))
       ELSE UNCHANGED <<pc, j, log>>
    /\ UNCHANGED <<config, buffer, request, unwaited, harness, corrupted, part>>

PipelinedRecv(p) ==
    /\ bcast_implementation_name = "pipelined_ring_bcast"
    /\ At(p, "loop") /\ p # 0
    /\ chunk_size' = [chunk_size EXCEPT ![p] = AdjustChunk(j[p], @, NUM_BYTES)]
    /\ Receive(p, p - 1, j[p], chunk_size'[p])
    /\ IF ~ReceiveOk(p, p - 1, chunk_size'[p])
       THEN UNCHANGED <<pc, j>>
       ELSE IF Forwards(p)
            THEN Goto(p, "fwd", j[p])
            ELSE NextChunk(p, AfterBcastPc(p), AfterBcastJ(p))
    /\ Record(p, RecvEvs(p, p - 1, j[p], chunk_size'[p]))
    /\ UNCHANGED <<config, request, unwaited, harness, corrupted, part>>

\* A blocking MPI_Send the runtime did not buffer returns when the
\* destination has received the message.
SendComplete(p) ==
    /\ At(p, "sendwait")
    /\ LET dst == IF bcast_implementation_name = "naive_bcast" THEN j[p] ELSE p + 1 IN
       /\ chan[<<p, dst>>] = <<>>
       /\ Record(p, <<IF bcast_implementation_name = "pipelined_ring_bcast"
                       THEN Ev("sent", j[p], chunk_size[p], dst)
                       ELSE Ev("sent", 0, NUM_BYTES, dst)>>)
    /\ UNCHANGED chunk_size
    /\ AfterSend(p)
    /\ UNCHANGED <<config, buffer, request, chan, unwaited, harness, corrupted,
                   aborted, part>>

\* ------------------------------------------------------- checksum collection
\* The fault of the mismatch test: something outside the program alters one
\* non-root buffer between the end of the broadcast and the rank's checksum
\* loop, to any other content.
Corrupt(p) ==
    /\ At(p, "cksum") /\ p # 0
    /\ corrupted = {}
    /\ \E b \in ByteSeqs(NUM_BYTES) :
          /\ b # buffer[p]
          /\ buffer' = [buffer EXCEPT ![p] = b]
    /\ corrupted' = corrupted \cup {p}
    /\ UNCHANGED <<config, pc, j, chunk_size, request, chan, unwaited, harness,
                   aborted, part, log>>

\* A non-root rank sums its buffer and sends the sum to rank 0.
SendChecksum(p) ==
    /\ At(p, "cksum") /\ p # 0
    /\ \E b \in Readings(buffer[p]) :
          Post(p, 0, 1, ChecksumMsg(Checksum(b)))
    /\ Goto(p, IF eager THEN "bar2" ELSE "cksendwait", NUM_BYTES)
    /\ UNCHANGED <<config, chunk_size, buffer, request, unwaited, harness, corrupted, part, log>>

ChecksumSendComplete(p) ==
    /\ At(p, "cksendwait")
    /\ chan[<<p, 0>>] = <<>>
    /\ pc' = [pc EXCEPT ![p] = "bar2"]
    /\ UNCHANGED <<config, j, chunk_size, buffer, request, chan, unwaited, harness,
                   corrupted, aborted, part, log>>

\* One iteration of rank 0's loop: MPI_Recv from MPI_ANY_SOURCE with tag 1,
\* then the comparison; on the first mismatch the line is printed, all_ok is
\* cleared and the loop is left by break.
RecvChecksum(p) ==
    /\ At(p, "cksum") /\ p = 0
    /\ \E src \in Procs :
          /\ chan[<<src, 0>>] # <<>>
          /\ LET received_checksum == Head(chan[<<src, 0>>]).data[1] IN
             /\ chan' = [chan EXCEPT ![<<src, 0>>] = Tail(@)]
             /\ nrecv' = nrecv + 1
             /\ mismatches' = mismatches + (IF checksum # received_checksum THEN 1 ELSE 0)
             /\ IF Mismatch(all_ok[p], checksum, received_checksum)
                THEN /\ diagnostics' = diagnostics + 1
                     /\ all_ok' = [all_ok EXCEPT ![p] = 0]
                     /\ Goto(p, "bar2", j[p])
                ELSE /\ UNCHANGED <<diagnostics, all_ok>>
                     /\ Goto(p, IF j[p] + 1 < num_procs THEN "cksum" ELSE "bar2", j[p] + 1)
    /\ UNCHANGED <<config, chunk_size, buffer, request, unwaited, timing, corrupted,
                   aborted, part, log>>

\* ------------------------------------------------------------- final barrier
\* A rank leaves MPI_Barrier once every rank has entered it; then the timing
\* line, free(buffer), MPI_Finalize, return.
Finish(p) ==
    /\ At(p, "bar2")
    /\ \A q \in Procs : pc[q] \in {"bar2", "done"}
    /\ timing' = IF PrintsTiming(p, all_ok[p]) THEN Append(timing, p) ELSE timing
    /\ pc' = [pc EXCEPT ![p] = "done"]
    /\ UNCHANGED <<config, j, chunk_size, buffer, request, chan, unwaited, all_ok, nrecv,
                   mismatches, diagnostics, corrupted, aborted, part, log>>

\* ------------------------------------- asynchronous_pipelined_ring_bcast
\* MPI_Isend: the message goes to the runtime and the handle into `slot` of
\* the rank's request variable, replacing whatever handle was there.
Isend(p, dst, slot) ==
    LET h == [dst |-> dst, off |-> j[p]] IN
    /\ Post(p, dst, chunk_size'[p], DataMsg(j[p], Region(buffer[p], j[p], chunk_size'[p])))
    /\ IF PostOk(dst, chunk_size'[p])
       THEN /\ request' = [request EXCEPT ![p][slot] = h]
            /\ unwaited' = [unwaited EXCEPT ![p] = @ \cup {h}]
            /\ Record(p, <<Ev("isend", j[p], chunk_size'[p], dst)>>)
       ELSE UNCHANGED <<request, unwaited, log>>

AsyncRingIsend(p) ==
    /\ bcast_implementation_name = "asynchronous_pipelined_ring_bcast"
    /\ \/ /\ At(p, "loop") /\ p = 0
          /\ chunk_size' = [chunk_size EXCEPT ![p] = AdjustChunk(j[p], @, NUM_BYTES)]
       \/ /\ At(p, "fwd")
          /\ UNCHANGED chunk_size
    /\ Isend(p, p + 1, 1)
    /\ IF ~PostOk(p + 1, chunk_size'[p])
       THEN UNCHANGED <<pc, j>>
       ELSE IF p = 0
            THEN NextChunk(p, AfterBcastPc(p), AfterBcastJ(p))
            ELSE NextChunk(p, "wait", j[p] + chunk_size'[p])
    /\ UNCHANGED <<config, buffer, harness, corrupted, part>>

AsyncRingRecv(p) ==
    /\ bcast_implementation_name = "asynchronous_pipelined_ring_bcast"
    /\ At(p, "loop") /\ p # 0
    /\ chunk_size' = [chunk_size EXCEPT ![p] = AdjustChunk(j[p], @, NUM_BYTES)]
    /\ Receive(p, p - 1, j[p], chunk_size'[p])
    /\ IF ~ReceiveOk(p, p - 1, chunk_size'[p])
       THEN UNCHANGED <<pc, j>>
       ELSE IF Forwards(p)
            THEN Goto(p, "fwd", j[p])
            ELSE NextChunk(p, "wait", j[p] + chunk_size'[p])
    /\ Record(p, RecvEvs(p, p - 1, j[p], chunk_size'[p]))
    /\ UNCHANGED <<config, request, unwaited, harness, corrupted, part>>

\* MPI_Wait / MPI_Waitall on the rank's request slots 1..n. A slot holding a
\* handle makes the call block until that send is complete. A slot that was
\* never assigned is an indeterminate value: the call may treat it as a null
\* request and go on, or fail, which kills the job.
WaitOn(p, slots) ==
    LET given == {request[p][s] : s \in slots}
        handles == given \ {Uninit, RequestNull} IN
    \/ /\ \A h \in handles : Complete(p, h)
       /\ request' = [request EXCEPT ![p] =
                         [s \in 1..2 |-> IF s \in slots /\ @[s] \in handles
                                         THEN RequestNull ELSE @[s]]]
       /\ unwaited' = [unwaited EXCEPT ![p] = @ \ handles]
       /\ ExitBcast(p)
       /\ UNCHANGED aborted
    \/ /\ Uninit \in given
       /\ aborted' = TRUE
       /\ UNCHANGED <<request, unwaited, pc, j>>

AsyncRingWait(p) ==
    /\ bcast_implementation_name = "asynchronous_pipelined_ring_bcast"
    /\ At(p, "wait")
    /\ WaitOn(p, {1})
    /\ UNCHANGED <<config, chunk_size, buffer, chan, harness, corrupted, part, log>>

\* ---------------------------------- asynchronous_pipelined_bintree_bcast
\* The rank a non-root rank receives from, (rank-1)/2 in C integer division
\* (evaluated only for rank >= 1, where truncation and floor agree), and the
\* two ranks it forwards to.
ParentHalf(rank) == rank \div 2
Parent(rank) == (rank - 1) \div 2
LeftChildOffByOne(rank) == rank * 2
LeftChild(rank) == rank * 2 + 1
RightChild(rank) == rank * 2 + 2

AfterTreeRecv(p) ==
    IF LeftChild(p) < num_procs THEN Goto(p, "fwd", j[p])
    ELSE IF RightChild(p) < num_procs THEN Goto(p, "fwd2", j[p])
    ELSE NextChunk(p, "wait", j[p] + chunk_size'[p])

\* The head of one iteration: the chunk size, and the receive from the parent
\* on every rank but 0.
TreeRecv(p) ==
    /\ bcast_implementation_name = "asynchronous_pipelined_bintree_bcast"
    /\ At(p, "loop")
    /\ chunk_size' = [chunk_size EXCEPT ![p] = AdjustChunk(j[p], @, NUM_BYTES)]
    /\ IF p # 0
       THEN /\ Receive(p, Parent(p), j[p], chunk_size'[p])
            /\ IF ~ReceiveOk(p, Parent(p), chunk_size'[p])
               THEN UNCHANGED <<pc, j>>
               ELSE AfterTreeRecv(p)
            /\ Record(p, RecvEvs(p, Parent(p), j[p], chunk_size'[p]))
       ELSE /\ AfterTreeRecv(p)
            /\ UNCHANGED <<chan, buffer, aborted, log>>
    /\ UNCHANGED <<config, request, unwaited, harness, corrupted, part>>

TreeIsendLeft(p) ==
    /\ bcast_implementation_name = "asynchronous_pipelined_bintree_bcast"
    /\ At(p, "fwd")
    /\ UNCHANGED chunk_size
    /\ Isend(p, LeftChild(p), 1)
    /\ IF ~PostOk(LeftChild(p), chunk_size[p])
       THEN UNCHANGED <<pc, j>>
       ELSE IF RightChild(p) < num_procs
            THEN Goto(p, "fwd2", j[p])
            ELSE NextChunk(p, "wait", j[p] + chunk_size[p])
    /\ UNCHANGED <<config, buffer, harness, corrupted, part>>

TreeIsendRight(p) ==
    /\ bcast_implementation_name = "asynchronous_pipelined_bintree_bcast"
    /\ At(p, "fwd2")
    /\ UNCHANGED chunk_size
    /\ Isend(p, RightChild(p), 2)
    /\ IF ~PostOk(RightChild(p), chunk_size[p])
       THEN UNCHANGED <<pc, j>>
       ELSE NextChunk(p, "wait", j[p] + chunk_size[p])
    /\ UNCHANGED <<config, buffer, harness, corrupted, part>>

TreeWaitall(p) ==
    /\ bcast_implementation_name = "asynchronous_pipelined_bintree_bcast"
    /\ At(p, "wait")
    /\ WaitOn(p, {1, 2})
    /\ UNCHANGED <<config, chunk_size, buffer, chan, harness, corrupted, part, log>>

\* --------------------------------------------------------------------- Next
Next ==
    \/ \E p \in Procs : EnterBarrier1(p)
    \/ \E p \in Procs : LeaveBarrier1(p)
    \/ \E p \in Procs : DefaultBcast(p)
    \/ \E p \in Procs : NaiveSend(p)
    \/ \E p \in Procs : NaiveRecv(p)
    \/ \E p \in Procs : RingSend(p)
    \/ \E p \in Procs : RingRecv(p)
    \/ \E p \in Procs : PipelinedSend(p)
    \/ \E p \in Procs : PipelinedRecv(p)
    \/ \E p \in Procs : SendComplete(p)
    \/ \E p \in Procs : AsyncRingIsend(p)
    \/ \E p \in Procs : AsyncRingRecv(p)
    \/ \E p \in Procs : AsyncRingWait(p)
    \/ \E p \in Procs : TreeRecv(p)
    \/ \E p \in Procs : TreeIsendLeft(p)
    \/ \E p \in Procs : TreeIsendRight(p)
    \/ \E p \in Procs : TreeWaitall(p)
    \/ \E p \in Procs : Corrupt(p)
    \/ \E p \in Procs : SendChecksum(p)
    \/ \E p \in Procs : ChecksumSendComplete(p)
    \/ \E p \in Procs : RecvChecksum(p)
    \/ \E p \in Procs : Finish(p)

Spec == Init /\ [][Next]_vars

\* ------------------------------------------------ the program without faults
\* The same program when nothing outside it alters a buffer, on communicators
\* of up to MaxProgramProcs ranks.
ProgramInit == Start(1..MaxProgramProcs, Impls, ChunkSizes)

ProgramNext ==
    \/ \E p \in Procs : EnterBarrier1(p)
    \/ \E p \in Procs : LeaveBarrier1(p)
    \/ \E p \in Procs : DefaultBcast(p)
    \/ \E p \in Procs : NaiveSend(p)
    \/ \E p \in Procs : NaiveRecv(p)
    \/ \E p \in Procs : RingSend(p)
    \/ \E p \in Procs : RingRecv(p)
    \/ \E p \in Procs : PipelinedSend(p)
    \/ \E p \in Procs : PipelinedRecv(p)
    \/ \E p \in Procs : SendComplete(p)
    \/ \E p \in Procs : AsyncRingIsend(p)
    \/ \E p \in Procs : AsyncRingRecv(p)
    \/ \E p \in Procs : AsyncRingWait(p)
    \/ \E p \in Procs : TreeRecv(p)
    \/ \E p \in Procs : TreeIsendLeft(p)
    \/ \E p \in Procs : TreeIsendRight(p)
    \/ \E p \in Procs : TreeWaitall(p)
    \/ \E p \in Procs : SendChecksum(p)
    \/ \E p \in Procs : ChecksumSendComplete(p)
    \/ \E p \in Procs : RecvChecksum(p)
    \/ \E p \in Procs : Finish(p)

SpecProgram == ProgramInit /\ [][ProgramNext]_vars

\* --------------------------------------- the tree strategy's broadcast alone
\* The tree strategy from the first barrier to the return of MPI_Waitall, on
\* communicators large enough for non-root ranks with one and with two
\* children, for every chunk size >= 1.
TreeInit ==
    Start(1..MaxTreeProcs, {"asynchronous_pipelined_bintree_bcast"}, 1..(NUM_BYTES + 1))

TreeNext ==
    \/ \E p \in Procs : EnterBarrier1(p)
    \/ \E p \in Procs : LeaveBarrier1(p)
    \/ \E p \in Procs : TreeRecv(p)
    \/ \E p \in Procs : TreeIsendLeft(p)
    \/ \E p \in Procs : TreeIsendRight(p)
    \/ \E p \in Procs : TreeWaitall(p)

SpecTree == TreeInit /\ [][TreeNext]_vars

\* ------------------------------------------------- the partition loop alone
\* for (j=0; j<total; j+=chunk_size) {
\*    if (j > total-chunk_size) chunk_size = total%chunk_size;  ... }
\* run by itself for every total and every configured chunk size >= 1; plan
\* records the (offset, length) pair each iteration hands to its MPI call.
PartInit ==
    /\ num_procs = 1
    /\ bcast_implementation_name = "pipelined_ring_bcast"
    /\ configured_chunk = NUM_BYTES
    /\ eager = FALSE
    /\ pc = [p \in Procs |-> "done"]
    /\ j = [p \in Procs |-> 0]
    /\ chunk_size = [p \in Procs |-> configured_chunk]
    /\ buffer = [p \in Procs |-> RootFill]
    /\ checksum = Checksum(RootFill)
    /\ all_ok = [p \in Procs |-> 1]
    /\ request = [p \in Procs |-> <<Uninit, Uninit>>]
    /\ chan = [c \in Procs \X Procs |-> <<>>]
    /\ unwaited = [p \in Procs |-> {}]
    /\ nrecv = 0
    /\ mismatches = 0
    /\ diagnostics = 0
    /\ timing = <<>>
    /\ corrupted = {}
    /\ aborted = FALSE
    /\ log = [p \in Procs |-> <<>>]
    /\ \E total \in 1..MaxTotal, cs \in 1..MaxPartChunk :
          part = [total |-> total, configured |-> cs, j |-> 0, chunk_size |-> cs,
                  plan |-> <<>>, pc |-> "loop"]

PartIterate ==
    /\ part.pc = "loop"
    /\ part.j < part.total
    /\ LET cs == AdjustChunk(part.j, part.chunk_size, part.total) IN
       part' = [part EXCEPT !.chunk_size = cs,
                            !.plan = Append(@, <<part.j, cs>>),
                            !.j = @ + cs]
    /\ UNCHANGED <<config, pc, j, chunk_size, buffer, request, chan, unwaited, harness,
                   corrupted, aborted, log>>

PartExit ==
    /\ part.pc = "loop"
    /\ ~(part.j < part.total)
    /\ part' = [part EXCEPT !.pc = "done"]
    /\ UNCHANGED <<config, pc, j, chunk_size, buffer, request, chan, unwaited, harness,
                   corrupted, aborted, log>>

PartNext == PartIterate \/ PartExit

SpecPart == PartInit /\ [][PartNext]_vars

\* ================================================================== claims
Chunked == {"pipelined_ring_bcast", "asynchronous_pipelined_ring_bcast",
            "asynchronous_pipelined_bintree_bcast"}
\* The rank's strategy has returned.
PastBcast(p) == pc[p] \in {"cksum", "cksendwait", "bar2", "done"}
\* Rank 0 has left the loop that collects the checksums.
RootCollected == pc[0] \in {"bar2", "done"}
AllDone == \A p \in Procs : pc[p] = "done"
NoMessages == \A c \in Procs \X Procs : chan[c] = <<>>

\* C1: with a chunk size >= 1 no run fails or gets stuck inside the broadcast
\* phase, and a rank whose strategy has returned holds rank 0's bytes (until
\* the injected fault alters them).
C1_BroadcastDelivers ==
    configured_chunk >= 1 =>
        /\ ~aborted
        /\ \A p \in Procs : PastBcast(p) /\ p \notin corrupted => buffer[p] = RootFill
        /\ (\E p \in Procs : ~PastBcast(p)) => ENABLED Next

\* C2: when rank 0 has left the checksum loop it has received one checksum
\* from every other rank, mismatch or not.
C2_RootDrainsAllChecksums ==
    /\ nrecv <= num_procs - 1
    /\ RootCollected => nrecv = num_procs - 1

\* C3: with sends that complete only when received, a corrupted non-root
\* buffer never leaves the group stuck: in every state short of every rank
\* having returned, some rank can take a step.
C3_NoDeadlockOnMismatch ==
    (~eager /\ ~aborted /\ configured_chunk >= 1 /\ num_procs >= 2 /\ corrupted # {})
        => (AllDone \/ ENABLED Next)

\* C4: a rank whose strategy has returned has waited on every non-blocking
\* send it issued.
C4_SendsWaitedBeforeReturn ==
    \A p \in Procs : PastBcast(p) => unwaited[p] = {}

\* C5: the chunks of the partition loop start at 0, follow one another
\* without gap or overlap, are never empty, are all chunk_size long except a
\* last one of total mod chunk_size (when that is not 0), add up to total
\* when the loop ends, and every iteration advances j; total 16 with chunk 5
\* gives (0,5),(5,5),(10,5),(15,1).
C5_ChunkPlan ==
    LET plan == part.plan
        n == Len(plan)
        total == part.total
        c == part.configured
        lastLen == IF total % c # 0 THEN total % c ELSE c
    IN part.pc # "idle" =>
        /\ n >= 1 => plan[1][1] = 0
        /\ \A i \in 1..n : plan[i][2] > 0
        /\ \A i \in 1..(n - 1) : plan[i + 1][1] = plan[i][1] + plan[i][2]
        /\ n >= 1 => part.j = plan[n][1] + plan[n][2]
        /\ n = 0 => part.j = 0
        /\ part.j <= total
        /\ \A i \in 1..n : plan[i][2] = (IF plan[i][1] + c <= total THEN c ELSE lastLen)
        /\ (part.pc = "loop" /\ part.j < total)
              => AdjustChunk(part.j, part.chunk_size, total) > 0
        /\ part.pc = "done" =>
              /\ part.j = total
              /\ n = (total + c - 1) \div c
              /\ plan[n][2] = lastLen
        /\ (part.pc = "done" /\ total = 16 /\ c = 5)
              => plan = << <<0, 5>>, <<5, 5>>, <<10, 5>>, <<15, 1>> >>

C5_Witness ==
    /\ part.pc = "done" /\ part.total = 16 /\ part.configured = 5
    /\ Len(part.plan) = 4

\* C6: a run configured with a chunk size <= 0 never gets as far as a chunk:
\* no rank goes beyond the entry of its strategy and no message is sent.
C6_NonPositiveChunkRejected ==
    (configured_chunk <= 0 /\ bcast_implementation_name \in Chunked /\ num_procs >= 2) =>
        /\ NoMessages
        /\ \A p \in Procs : pc[p] \in {"start", "bar1", "loop"} /\ j[p] = 0

\* C7: alone in the group, rank 0 sends and receives nothing in any strategy,
\* keeps its buffer, and runs on to the timing line.
C7_SingleProcessNoOp ==
    (num_procs = 1 /\ configured_chunk >= 1) =>
        /\ ~aborted
        /\ NoMessages
        /\ unwaited[0] = {}
        /\ buffer[0] = RootFill
        /\ pc[0] = "done" => timing = <<0>>
        /\ pc[0] # "done" => ENABLED Next

\* C8 as stated: whatever the change to the one corrupted buffer, rank 0
\* leaves the checksum loop with all_ok = 0.
C8_AnyCorruptionDetected ==
    \A p \in corrupted :
        (RootCollected /\ pc[p] # "cksum" /\ buffer[p] # buffer[0]) => all_ok[0] = 0

\* C8 amended: if the change to the one corrupted buffer changes the sum of
\* its bytes, rank 0 leaves the checksum loop with all_ok = 0.
C8_SumChangingCorruptionDetected ==
    \A p \in corrupted :
        (RootCollected /\ Checksum(buffer[p]) # checksum) => all_ok[0] = 0

C8_Witness ==
    \E p \in corrupted :
        RootCollected /\ Checksum(buffer[p]) # checksum /\ all_ok[0] = 0

C10_OutstandingSendsBounded ==
    \A p \in Procs :
        /\ bcast_implementation_name = "asynchronous_pipelined_bintree_bcast" =>
              /\ Cardinality(unwaited[p]) <= 2
              /\ \A d \in Procs : Cardinality({h \in unwaited[p] : h.dst = d}) <= 1
        /\ bcast_implementation_name = "asynchronous_pipelined_ring_bcast" =>
              Cardinality(unwaited[p]) <= 1

\* C11: in the tree strategy parent and children agree for every size: each
\* rank c >= 1 has its parent inside the communicator and is the left or the
\* right child of that parent; each child of a rank r that exists has r as
\* its parent; following parents from any rank ends at rank 0; and every
\* data message in flight travels from the receiver's parent to one of the
\* sender's children, so a non-root rank has exactly one sender.
RECURSIVE Ancestor(_, _)
Ancestor(rank, steps) ==
    IF steps = 0 \/ rank = 0 THEN rank ELSE Ancestor(Parent(rank), steps - 1)

C11_TreeConsistent ==
    bcast_implementation_name = "asynchronous_pipelined_bintree_bcast" =>
        /\ \A c \in Procs \ {0} :
              /\ Parent(c) \in Procs /\ Parent(c) < c
              /\ c \in {LeftChild(Parent(c)), RightChild(Parent(c))}
              /\ Cardinality({r \in Procs : c \in {LeftChild(r), RightChild(r)}}) = 1
              /\ Ancestor(c, num_procs) = 0
        /\ \A r \in Procs :
              /\ LeftChild(r) \in Procs => Parent(LeftChild(r)) = r
              /\ RightChild(r) \in Procs => Parent(RightChild(r)) = r
              /\ LeftChild(r) # RightChild(r) /\ LeftChild(r) > 0 /\ RightChild(r) > 0
        /\ \A s \in Procs, d \in Procs :
              (d # 0 /\ chan[<<s, d>>] # <<>>) =>
                  s = Parent(d) /\ d \in {LeftChild(s), RightChild(s)}

C11_Witness ==
    /\ bcast_implementation_name = "asynchronous_pipelined_bintree_bcast"
    /\ num_procs = MaxTreeProcs
    /\ chan[<<0, 2>>] # <<>> /\ chan[<<1, 3>>] # <<>> /\ chan[<<1, 4>>] # <<>>

\* C12: the chunk size in the timing line is the configured one. The line
\* prints rank 0's chunk_size variable, which no statement after the
\* strategy assigns, so once the line is out the printed value is
\* chunk_size[0].
C12_PrintedChunkIsConfigured ==
    (configured_chunk >= 1 /\ timing # <<>>) => chunk_size[0] = configured_chunk

\* The chunk plan of the specification for chunk size c >= 1: chunk k
\* (k = 1, 2, ...) starts at (k-1)*c and has c bytes, the last one what is
\* left of the NUM_BYTES bytes.
NumChunks(c) == (NUM_BYTES + c - 1) \div c
PlanOff(k, c) == (k - 1) * c
PlanLen(k, c) == IF PlanOff(k, c) + c <= NUM_BYTES THEN c ELSE NUM_BYTES - PlanOff(k, c)

IsPrefix(a, b) == Len(a) <= Len(b) /\ SubSeq(b, 1, Len(a)) = a

\* C13: in pipelined_ring_bcast with at least two ranks and a chunk size
\* >= 1 the log of every rank is a prefix of: per chunk of the plan, in plan
\* order, the receive from rank-1 (not on rank 0), then the blocking send to
\* rank+1 entered and returned (not on the last rank); a rank past the
\* strategy has the whole of it, each transfer once; the last rank is never
\* in a send; the run does not abort.
RECURSIVE PipelinedExpected(_, _)
PipelinedExpected(r, k) ==
    IF k = 0 THEN <<>>
    ELSE LET off == PlanOff(k, configured_chunk)
             len == PlanLen(k, configured_chunk) IN
         PipelinedExpected(r, k - 1)
         \o (IF r # 0 THEN <<Ev("recv", off, len, r - 1)>> ELSE <<>>)
         \o (IF r # num_procs - 1
             THEN <<Ev("send", off, len, r + 1), Ev("sent", off, len, r + 1)>>
             ELSE <<>>)

C13_PipelinedRingOrder ==
    (/\ bcast_implementation_name = "pipelined_ring_bcast"
     /\ num_procs >= 2 /\ configured_chunk >= 1) =>
        /\ ~aborted
        /\ pc[num_procs - 1] \notin {"fwd", "sendwait"}
        /\ \A r \in Procs :
              LET all == PipelinedExpected(r, NumChunks(configured_chunk)) IN
              /\ IsPrefix(log[r], all)
              /\ PastBcast(r) => log[r] = all

C13_Witness ==
    /\ bcast_implementation_name = "pipelined_ring_bcast"
    /\ num_procs = MaxProcs /\ configured_chunk = 2 /\ ~eager
    /\ pc[1] = "sendwait" /\ Len(log[1]) = 5
    /\ pc[2] = "loop" /\ j[2] = 2

\* C14: in ring_bcast with at least two ranks, the log of rank r is a prefix
\* of: the receive of the whole buffer from r-1 (not on rank 0), then one
\* blocking send of the whole buffer to r+1 entered and returned (not on the
\* last rank), and is all of it once the rank is past the strategy; a rank
\* that has received implies the rank before it received earlier (or is
\* rank 0) and, unless altered from outside since, holds rank 0's bytes; the
\* last rank is never in a send; the run does not abort.
RingExpected(r) ==
    (IF r # 0 THEN <<Ev("recv", 0, NUM_BYTES, r - 1)>> ELSE <<>>)
    \o (IF r # num_procs - 1
        THEN <<Ev("send", 0, NUM_BYTES, r + 1), Ev("sent", 0, NUM_BYTES, r + 1)>>
        ELSE <<>>)

C14_RingOrder ==
    (bcast_implementation_name = "ring_bcast" /\ num_procs >= 2) =>
        /\ ~aborted
        /\ pc[num_procs - 1] \notin {"fwd", "sendwait"}
        /\ \A r \in Procs :
              /\ IsPrefix(log[r], RingExpected(r))
              /\ PastBcast(r) => log[r] = RingExpected(r)
              /\ (r >= 2 /\ log[r] # <<>>) => Len(log[r - 1]) >= 2
              /\ (r >= 1 /\ log[r] # <<>> /\ r - 1 \notin corrupted) =>
                    buffer[r - 1] = RootFill

C14_Witness ==
    /\ bcast_implementation_name = "ring_bcast"
    /\ num_procs = MaxProcs /\ ~eager
    /\ pc[1] = "sendwait" /\ log[1] = SubSeq(RingExpected(1), 1, 2)
    /\ log[2] = <<>>

\* C15: in the tree strategy with a chunk size >= 1 the log of rank r is a
\* prefix of: per chunk of the plan, in plan order, the receive from
\* (r-1)/2 (not on rank 0), then the isend to 2r+1 if that rank exists, then
\* the isend to 2r+2 if that rank exists; a rank past the strategy has all
\* of it, each transfer once; a rank about to isend has an existing child as
\* the destination.
RECURSIVE TreeExpected(_, _)
TreeExpected(r, k) ==
    IF k = 0 THEN <<>>
    ELSE LET off == PlanOff(k, configured_chunk)
             len == PlanLen(k, configured_chunk) IN
         TreeExpected(r, k - 1)
         \o (IF r # 0 THEN <<Ev("recv", off, len, (r - 1) \div 2)>> ELSE <<>>)
         \o (IF 2 * r + 1 < num_procs THEN <<Ev("isend", off, len, 2 * r + 1)>> ELSE <<>>)
         \o (IF 2 * r + 2 < num_procs THEN <<Ev("isend", off, len, 2 * r + 2)>> ELSE <<>>)

C15_TreeOrder ==
    (/\ bcast_implementation_name = "asynchronous_pipelined_bintree_bcast"
     /\ configured_chunk >= 1) =>
        \A r \in Procs :
            LET all == TreeExpected(r, NumChunks(configured_chunk)) IN
            /\ IsPrefix(log[r], all)
            /\ PastBcast(r) => log[r] = all
            /\ pc[r] = "fwd" => 2 * r + 1 < num_procs
            /\ pc[r] = "fwd2" => 2 * r + 2 < num_procs

C15_Witness ==
    /\ bcast_implementation_name = "asynchronous_pipelined_bintree_bcast"
    /\ num_procs = MaxTreeProcs /\ configured_chunk = 2
    /\ Len(log[1]) = 5 /\ log[1][5].ev = "isend" /\ log[1][5].peer = 3
    /\ PastBcast(2) /\ Len(log[3]) = 1

\* C16: a rank that stands at MPI_Wait (asynchronous ring, slot 1) or at
\* MPI_Waitall (tree, slots 1 and 2) passes only handles that one of its
\* own earlier isends of this run assigned: no slot it passes is unassigned.
C16_WaitsOnlyOnIssuedSends ==
    \A p \in Procs :
        pc[p] = "wait" =>
            \A s \in (IF bcast_implementation_name = "asynchronous_pipelined_ring_bcast"
                      THEN {1} ELSE {1, 2}) :
                /\ request[p][s] # Uninit
                /\ \E i \in 1..Len(log[p]) :
                      /\ log[p][i].ev = "isend"
                      /\ log[p][i].peer = request[p][s].dst
                      /\ log[p][i].off = request[p][s].off

\* C17: data and checksum messages, which share tag 1, are never taken for
\* each other: every message addressed to rank 0 (what its wildcard receive
\* can match) is a checksum message; every message addressed to another rank
\* is a data message from the rank that receiver names as its source; the
\* message a non-root rank's next data receive will match is a data message
\* with the offset and the length the receiver expects; every receive in a
\* rank's log matched the expected sender.
ExpectedSender(d) ==
    CASE bcast_implementation_name = "naive_bcast" -> 0
      [] bcast_implementation_name = "asynchronous_pipelined_bintree_bcast" -> (d - 1) \div 2
      [] OTHER -> d - 1

C17_NoTagConfusion ==
    /\ \A s \in Procs, d \in Procs :
          \A i \in 1..Len(chan[<<s, d>>]) :
              IF d = 0 THEN chan[<<s, d>>][i].kind = "checksum"
              ELSE chan[<<s, d>>][i].kind = "data" /\ s = ExpectedSender(d)
    /\ \A p \in Procs \ {0} :
          /\ \A i \in 1..Len(log[p]) :
                log[p][i].ev = "recv" => log[p][i].peer = ExpectedSender(p)
          /\ (pc[p] = "loop" /\ bcast_implementation_name # "default_bcast"
                /\ chan[<<ExpectedSender(p), p>>] # <<>>) =>
                LET m == Head(chan[<<ExpectedSender(p), p>>]) IN
                /\ m.kind = "data"
                /\ IF bcast_implementation_name \in Chunked
                   THEN /\ m.off = j[p]
                        /\ Len(m.data) = AdjustChunk(j[p], chunk_size[p], NUM_BYTES)
                   ELSE m.off = 0 /\ Len(m.data) = NUM_BYTES

C17_Witness ==
    /\ pc[0] = "cksum"
    /\ \E p \in Procs \ {0} : chan[<<p, 0>>] # <<>>
    /\ \E s \in Procs, d \in Procs \ {0} :
          chan[<<s, d>>] # <<>> /\ pc[d] = "loop" /\ j[d] > 0

\* C18: when every process has terminated (has passed the final barrier,
\* freed its buffer and finalized), no message is left that was sent and not
\* received, whether or not a checksum differed.
C18_NothingLeftInFlight == AllDone => NoMessages

\* C19: as long as some process has not entered the first barrier no data
\* message has been sent or received; and once rank 0 has passed the final
\* barrier, every other rank has received every byte of the buffer, in every
\* strategy.
Covered(p) ==
    \A b \in 0..(NUM_BYTES - 1) :
        \E i \in 1..Len(log[p]) :
            /\ log[p][i].ev \in {"recv", "bcast"}
            /\ log[p][i].off <= b /\ b < log[p][i].off + log[p][i].len

C19_BarriersBracketBroadcast ==
    /\ (\E q \in Procs : pc[q] = "start") =>
          NoMessages /\ \A p \in Procs : log[p] = <<>>
    /\ pc[0] = "done" => \A p \in Procs \ {0} : Covered(p)

C19_Witness ==
    /\ pc[0] = "done" /\ num_procs = MaxProcs
    /\ bcast_implementation_name = "asynchronous_pipelined_ring_bcast"
    /\ configured_chunk = 1 /\ Len(log[2]) = NUM_BYTES

\* C20: in the two asynchronous strategies, while a data message a rank
\* isent has not been received, the region it was sent from still holds the
\* bytes that were sent (unless something outside the program altered the
\* rank's buffer); the regions a rank's receives wrote do not overlap, and
\* the region of each isend of a non-root rank is the region of one earlier
\* receive; a rank that has freed its buffer has passed the final barrier
\* with every rank in it, and none of its data messages is still in flight.
Overlap(e, f) == e.off < f.off + f.len /\ f.off < e.off + e.len

C20_IsendRegionsStable ==
    bcast_implementation_name \in {"asynchronous_pipelined_ring_bcast",
                                   "asynchronous_pipelined_bintree_bcast"} =>
        \A p \in Procs :
            /\ p \notin corrupted =>
                  \A d \in Procs : \A i \in 1..Len(chan[<<p, d>>]) :
                      LET m == chan[<<p, d>>][i] IN
                      m.kind = "data" => Region(buffer[p], m.off, Len(m.data)) = m.data
            /\ \A i \in 1..Len(log[p]), k \in 1..Len(log[p]) :
                  (i < k /\ log[p][i].ev = "recv" /\ log[p][k].ev = "recv") =>
                      ~Overlap(log[p][i], log[p][k])
            /\ \A k \in 1..Len(log[p]) :
                  (p # 0 /\ log[p][k].ev = "isend") =>
                      \E i \in 1..(k - 1) :
                          /\ log[p][i].ev = "recv"
                          /\ log[p][i].off = log[p][k].off
                          /\ log[p][i].len = log[p][k].len
            /\ pc[p] = "done" =>
                  /\ \A q \in Procs : pc[q] \in {"bar2", "done"}
                  /\ \A d \in Procs : \A i \in 1..Len(chan[<<p, d>>]) :
                        chan[<<p, d>>][i].kind # "data"

C20_Witness ==
    /\ bcast_implementation_name = "asynchronous_pipelined_ring_bcast"
    /\ num_procs = MaxProcs /\ configured_chunk = 1
    /\ Len(chan[<<1, 2>>]) = 2 /\ pc[1] = "loop" /\ j[1] = 2
    /\ chan[<<0, 1>>] # <<>>
====
